---------------------------- MODULE Spec2Model ----------------------------
(***************************************************************************)
(* Model of BeeHive's free time finder (src/free_time_finder.py):          *)
(* merge_busy_intervals (the interval normalizer) and                      *)
(* find_free_slots_ortools (the slot scanner).                             *)
(*                                                                         *)
(* A naive datetime is the number of minutes since midnight of day 0; all  *)
(* datetimes the scanner builds have zero seconds and microseconds         *)
(* (strptime of a date, replace(hour, minute=0), + timedelta(minutes=n)).  *)
(* A POSIX timestamp is a number of seconds.  The host's local time zone,  *)
(* which datetime.timestamp() and datetime.fromtimestamp() consult for     *)
(* naive datetimes, is an input of the model.                              *)
(***************************************************************************)
EXTENDS Integers, Sequences, FiniteSets, TLC

VARIABLES
    zone,               \* the host's local time zone (environment)
    start_date,         \* argument: date string, modelled as [ok, day]
    end_date,           \* argument: date string, modelled as [ok, day]
    busy_intervals,     \* argument: sequence of <<start, end>> naive datetimes
    slot_duration_min,  \* argument
    work_start,         \* argument
    work_end,           \* argument
    pc,                 \* position in the function
    err,                \* the exception that ended the call, "" when none
    start_dt,           \* local: midnight of the start date
    end_dt,             \* local: midnight after the end date
    merged,             \* local: result of merge_busy_intervals
    current,            \* local: the scan cursor
    free_slots,         \* local: the slots emitted so far
    model,              \* local: cursors whose slot_var the CP model forces to 0
    result              \* the returned list, <<>> until the function returns

vars == <<zone, start_date, end_date, busy_intervals, slot_duration_min,
          work_start, work_end, pc, err, start_dt, end_dt, merged, current,
          free_slots, model, result>>

args == <<zone, start_date, end_date, busy_intervals, slot_duration_min,
          work_start, work_end>>

-----------------------------------------------------------------------------
(* Bounds of the model.                                                    *)

MaxDay == 1          \* dates are day 0 .. MaxDay
MaxBusy == 2         \* longest busy list handed to find_free_slots_ortools
MaxIntervals == 3    \* longest list handed to merge_busy_intervals alone

-----------------------------------------------------------------------------
(* datetime arithmetic.                                                    *)

MinutesPerHour == 60
HoursPerDay == 24
SecondsPerMinute == 60
MinutesPerDay == HoursPerDay * MinutesPerHour

\* datetime.hour
Hour(t) == (t % MinutesPerDay) \div MinutesPerHour

\* datetime.replace(hour=h, minute=0) on a datetime with zero seconds
ReplaceHour(t, h) == (t \div MinutesPerDay) * MinutesPerDay + h * MinutesPerHour

\* + timedelta(days=1)
PlusOneDay(t) == t + MinutesPerDay

\* datetime.strptime(date, "%m/%d/%Y"): midnight of the day the string names
Strptime(date) == date.day * MinutesPerDay

\* datetime.isoformat(): the datetime written out as date, hour and minute
IsoFormat(t) == << t \div MinutesPerDay, Hour(t), t % MinutesPerHour >>

\* Reading an ISO string back (used to state properties of the output).
FromIso(s) == s[1] * MinutesPerDay + s[2] * MinutesPerHour + s[3]

(* Local time zones.  before/after are the UTC offsets in minutes on either *)
(* side of the zone's one transition, which happens when the wall clock,    *)
(* still on the `before' offset, reads `at'.  after > before is a spring-   *)
(* forward gap, after < before a fall-back fold, equal offsets no           *)
(* transition.                                                              *)
LocalZones ==
    { [name |-> "fixed",  before |-> 0,    after |-> 0,    at |-> 0],
      [name |-> "spring", before |-> -300, after |-> -240, at |-> 120],
      [name |-> "fall",   before |-> -240, after |-> -300, at |-> 120] }

\* naive datetime.timestamp() (fold = 0): the wall time read in the local
\* zone; a time inside a gap is read with the offset before the transition,
\* a repeated time as its first occurrence.
Timestamp(z, t) ==
    LET gap == IF z.after > z.before THEN z.after - z.before ELSE 0
    IN  IF t < z.at + gap
        THEN (t - z.before) * SecondsPerMinute
        ELSE (t - z.after) * SecondsPerMinute

\* datetime.fromtimestamp(u): the local wall time of the instant u
FromTimestamp(z, u) ==
    LET m == u \div SecondsPerMinute
    IN  IF m < z.at - z.before THEN m + z.before ELSE m + z.after

-----------------------------------------------------------------------------
(* intervaltree.IntervalTree, as far as merge_busy_intervals uses it.  A   *)
(* tree is a set of <<begin, end>> intervals.                              *)

\* Interval.is_null(): IntervalTree.add raises ValueError on such an interval
IsNull(iv) == iv[1] >= iv[2]

\* Interval ordering used by sorted(): by begin, then by end
IntervalLess(a, b) == a[1] < b[1] \/ (a[1] = b[1] /\ a[2] < b[2])

RECURSIVE SortedIntervals(_)
SortedIntervals(S) ==
    IF S = {} THEN << >>
    ELSE LET m == CHOOSE x \in S : \A y \in S \ {x} : IntervalLess(x, y)
         IN  << m >> \o SortedIntervals(S \ {m})

Max(a, b) == IF a >= b THEN a ELSE b

ShouldMergeTouching(lower, higher) == higher[1] <= lower[2]

ShouldMergeNever(lower, higher) == FALSE

\* merge_overlaps(strict=True): merge only when the ranges really overlap
ShouldMerge(lower, higher) == higher[1] < lower[2]

RECURSIVE MergeSeries(_, _)
MergeSeries(sorted, out) ==
    IF sorted = << >> THEN out
    ELSE LET higher == Head(sorted)
             n == Len(out)
         IN  IF n > 0 /\ ShouldMerge(out[n], higher)
             THEN MergeSeries(Tail(sorted),
                      [out EXCEPT ![n] = << out[n][1], Max(out[n][2], higher[2]) >>])
             ELSE MergeSeries(Tail(sorted), Append(out, higher))

\* IntervalTree.merge_overlaps(): the tree rebuilt from the merged series
MergeOverlaps(tree) ==
    LET s == MergeSeries(SortedIntervals(tree), << >>)
    IN  { s[i] : i \in 1..Len(s) }

-----------------------------------------------------------------------------
(* merge_busy_intervals                                                    *)

IsMalformedStrict(iv) == iv[1] > iv[2]

\* the guard of line 95: the interval is logged and skipped
IsMalformed(iv) == iv[1] >= iv[2]

\* the intervals handed to tree.addi, as timestamps
Added(z, intervals) ==
    { << Timestamp(z, intervals[i][1]), Timestamp(z, intervals[i][2]) >> :
        i \in { j \in 1..Len(intervals) : ~IsMalformed(intervals[j]) } }

\* line 101: the merged intervals, in order, converted back to datetimes
RECURSIVE FromTimestamps(_, _)
FromTimestamps(z, s) ==
    IF s = << >> THEN << >>
    ELSE << << FromTimestamp(z, Head(s)[1]), FromTimestamp(z, Head(s)[2]) >> >>
             \o FromTimestamps(z, Tail(s))

\* [ok |-> TRUE, val |-> merged list], or ok = FALSE when tree.addi raises
merge_busy_intervals(z, intervals) ==
    IF intervals = << >> THEN [ok |-> TRUE, val |-> << >>]
    ELSE LET added == Added(z, intervals)
         IN  IF \E iv \in added : IsNull(iv)
             THEN [ok |-> FALSE, val |-> << >>]
             ELSE [ok |-> TRUE,
                   val |-> FromTimestamps(z, SortedIntervals(MergeOverlaps(added)))]

-----------------------------------------------------------------------------
(* find_free_slots_ortools                                                 *)

\* timedelta(minutes=slot_duration_min)
slot_delta == slot_duration_min

\* slot_end of the current iteration (line 172)
slot_end == current + slot_delta

\* lines 181-185: the half-open overlap test against every merged interval
HasConflict(s, e, busy) ==
    \E i \in 1..Len(busy) : ~(e <= busy[i][1] \/ s >= busy[i][2])

ParameterErrorNoWindowCheck(dur, ws, we, sd, ed) ==
    IF dur <= 0 THEN "ValueError: slot_duration_min"
    ELSE IF ~(0 <= ws /\ ws < HoursPerDay) THEN "ValueError: work_start"
    ELSE IF ~(0 <= we /\ we <= HoursPerDay) THEN "ValueError: work_end"
    ELSE IF ~sd.ok \/ ~ed.ok THEN "InvalidDateRangeError: format"
    ELSE IF Strptime(sd) >= PlusOneDay(Strptime(ed))
         THEN "InvalidDateRangeError: start_date must be before end_date"
    ELSE ""

\* the first failing check of lines 135-151, "" when all pass
ParameterError(dur, ws, we, sd, ed) ==
    IF dur <= 0 THEN "ValueError: slot_duration_min"
    ELSE IF ~(0 <= ws /\ ws < HoursPerDay) THEN "ValueError: work_start"
    ELSE IF ~(0 <= we /\ we <= HoursPerDay) THEN "ValueError: work_end"
    ELSE IF ws >= we THEN "ValueError: work_start >= work_end"
    ELSE IF ~sd.ok \/ ~ed.ok THEN "InvalidDateRangeError: format"
    ELSE IF Strptime(sd) >= PlusOneDay(Strptime(ed))
         THEN "InvalidDateRangeError: start_date must be before end_date"
    ELSE ""

\* lines 134-154: validation of the arguments and parsing of the dates
Validate ==
    /\ pc = "validate"
    /\ LET e == ParameterError(slot_duration_min, work_start, work_end,
                               start_date, end_date)
       IN  IF e # ""
           THEN /\ pc' = "error"
                /\ err' = e
                /\ UNCHANGED <<start_dt, end_dt>>
           ELSE /\ pc' = "merge"
                /\ start_dt' = Strptime(start_date)
                /\ end_dt' = PlusOneDay(Strptime(end_date))
                /\ err' = err
    /\ UNCHANGED <<args, merged, current, free_slots, model, result>>

\* lines 156-161: the busy list is merged and the cursor set up
Merge ==
    /\ pc = "merge"
    /\ LET r == merge_busy_intervals(zone, busy_intervals)
       IN  IF r.ok
           THEN /\ merged' = r.val
                /\ current' = ReplaceHour(start_dt, work_start)
                /\ pc' = "scan"
                /\ err' = err
           ELSE /\ pc' = "error"
                /\ err' = "ValueError: IntervalTree"
                /\ UNCHANGED <<merged, current>>
    /\ UNCHANGED <<args, start_dt, end_dt, free_slots, model, result>>

DayJumpSameDay ==
    /\ pc = "scan"
    /\ current < end_dt
    /\ Hour(current) >= work_end
    /\ current' = ReplaceHour(current, work_start)
    /\ UNCHANGED <<args, pc, err, start_dt, end_dt, merged, free_slots, model, result>>

\* lines 165-167: past the working hours, jump to the next day's work_start
DayJump ==
    /\ pc = "scan"
    /\ current < end_dt
    /\ Hour(current) >= work_end
    /\ current' = ReplaceHour(PlusOneDay(current), work_start)
    /\ UNCHANGED <<args, pc, err, start_dt, end_dt, merged, free_slots, model, result>>

\* lines 168-170: before the working hours, clamp to work_start
Clamp ==
    /\ pc = "scan"
    /\ current < end_dt
    /\ ~(Hour(current) >= work_end)
    /\ Hour(current) < work_start
    /\ current' = ReplaceHour(current, work_start)
    /\ UNCHANGED <<args, pc, err, start_dt, end_dt, merged, free_slots, model, result>>

SpillsAtEnd(e) == Hour(e) >= work_end

\* the test of line 173: the hour of slot_end against work_end
Spills(e) == Hour(e) > work_end

InWindow ==
    /\ pc = "scan"
    /\ current < end_dt
    /\ ~(Hour(current) >= work_end)
    /\ ~(Hour(current) < work_start)

\* lines 172-175: the slot would spill past the working hours
SpillSkip ==
    /\ InWindow
    /\ Spills(slot_end)
    /\ current' = current + slot_delta
    /\ UNCHANGED <<args, pc, err, start_dt, end_dt, merged, free_slots, model, result>>

\* lines 177-185, 194: a merged busy interval overlaps the slot
ConflictSkip ==
    /\ InWindow
    /\ ~Spills(slot_end)
    /\ HasConflict(current, slot_end, merged)
    /\ model' = model \cup {current}
    /\ current' = current + slot_delta
    /\ UNCHANGED <<args, pc, err, start_dt, end_dt, merged, free_slots, result>>

EmitTrimmed ==
    /\ InWindow
    /\ ~Spills(slot_end)
    /\ ~HasConflict(current, slot_end, merged)
    /\ LET window_end == ReplaceHour(current, 0) + work_end * MinutesPerHour
           e == IF slot_end > window_end THEN window_end ELSE slot_end
       IN  free_slots' = Append(free_slots,
                                [start |-> IsoFormat(current),
                                 end |-> IsoFormat(e),
                                 duration_minutes |-> slot_duration_min])
    /\ current' = current + slot_delta
    /\ UNCHANGED <<args, pc, err, start_dt, end_dt, merged, model, result>>

\* lines 187-194: the slot is free and is appended to the list
Emit ==
    /\ InWindow
    /\ ~Spills(slot_end)
    /\ ~HasConflict(current, slot_end, merged)
    /\ free_slots' = Append(free_slots,
                            [start |-> IsoFormat(current),
                             end |-> IsoFormat(slot_end),
                             duration_minutes |-> slot_duration_min])
    /\ current' = current + slot_delta
    /\ UNCHANGED <<args, pc, err, start_dt, end_dt, merged, model, result>>

\* lines 163, 196-205: the loop ends; every constraint of the CP model sets
\* a fresh boolean to 0, so the solver finds it feasible and the list is
\* returned as built
Return ==
    /\ pc = "scan"
    /\ ~(current < end_dt)
    /\ pc' = "done"
    /\ result' = free_slots
    /\ UNCHANGED <<args, err, start_dt, end_dt, merged, current, free_slots, model>>

-----------------------------------------------------------------------------
(* Inputs.                                                                 *)

Dates == { [ok |-> TRUE, day |-> d] : d \in 0..MaxDay }
             \cup { [ok |-> FALSE, day |-> 0] }

SlotDurations == {-60, 0, 50, 60, 500}

WorkStarts == {-1, 0, 9, 24}

WorkEnds == {-1, 9, 21, 24, 25}

\* busy intervals of the scanner's inputs: 10:00-11:00, a malformed one,
\* 02:30-04:00 and 02:30-03:00 (inside the spring zone's missing hour), and
\* one from 20:00 of day 0 to 10:00 of day 1
BusyChoices ==
    { <<600, 660>>, <<720, 660>>, <<150, 240>>, <<150, 180>>, <<1200, 2040>> }

RECURSIVE SeqsUpTo(_, _)
SeqsUpTo(S, n) ==
    IF n = 0 THEN { << >> }
    ELSE LET shorter == SeqsUpTo(S, n - 1)
         IN  shorter \cup { Append(q, x) : q \in { r \in shorter : Len(r) = n - 1 }, x \in S }

\* before the call: the arguments hold the defaults of the signature
Init ==
    /\ zone \in LocalZones
    /\ start_date = [ok |-> TRUE, day |-> 0]
    /\ end_date = [ok |-> TRUE, day |-> 0]
    /\ busy_intervals = << >>
    /\ slot_duration_min = 60
    /\ work_start = 9
    /\ work_end = 21
    /\ pc = "idle"
    /\ err = ""
    /\ start_dt = 0
    /\ end_dt = 0
    /\ merged = << >>
    /\ current = 0
    /\ free_slots = << >>
    /\ model = {}
    /\ result = << >>

\* line 108: find_free_slots_ortools is called with some arguments
Call ==
    /\ pc = "idle"
    /\ start_date' \in Dates
    /\ end_date' \in Dates
    /\ busy_intervals' \in SeqsUpTo(BusyChoices, MaxBusy)
    /\ slot_duration_min' \in SlotDurations
    /\ work_start' \in WorkStarts
    /\ work_end' \in WorkEnds
    /\ pc' = "validate"
    /\ UNCHANGED <<zone, err, start_dt, end_dt, merged, current, free_slots, model, result>>

Next ==
    \/ Call
    \/ Validate
    \/ Merge
    \/ DayJump
    \/ Clamp
    \/ SpillSkip
    \/ ConflictSkip
    \/ Emit
    \/ Return

Spec == Init /\ [][Next]_vars

\* busy lists of the calls whose termination is checked: none, one
\* conflicting interval, one that crosses midnight, and the two of the
\* spring zone's missing hour (the second is rejected by IntervalTree there)
LiveBusyLists ==
    { << >>, << <<600, 660>> >>, << <<1200, 2040>> >>, << <<150, 240>> >>,
      << <<150, 180>> >> }

\* line 108: the call, with the busy list drawn from LiveBusyLists
CallLive ==
    /\ pc = "idle"
    /\ start_date' \in Dates
    /\ end_date' \in Dates
    /\ busy_intervals' \in LiveBusyLists
    /\ slot_duration_min' \in SlotDurations
    /\ work_start' \in WorkStarts
    /\ work_end' \in WorkEnds
    /\ pc' = "validate"
    /\ UNCHANGED <<zone, err, start_dt, end_dt, merged, current, free_slots, model, result>>

NextLive ==
    \/ CallLive
    \/ Validate
    \/ Merge
    \/ DayJump
    \/ Clamp
    \/ SpillSkip
    \/ ConflictSkip
    \/ Emit
    \/ Return

\* the function is single-threaded and runs to completion once called
LiveSpec == Init /\ [][NextLive]_vars /\ WF_vars(NextLive)

-----------------------------------------------------------------------------
(* merge_busy_intervals called on its own.                                 *)

\* wall-clock minutes of day 0: 01:00, 02:30, 03:00, 04:00
MergePoints == {60, 150, 180, 240}

RawIntervals == MergePoints \X MergePoints

\* lines 90-105: one call of merge_busy_intervals
MergeCall ==
    /\ pc = "merge_call"
    /\ LET r == merge_busy_intervals(zone, busy_intervals)
       IN  /\ pc' = IF r.ok THEN "merge_done" ELSE "merge_error"
           /\ merged' = r.val
           /\ err' = IF r.ok THEN err ELSE "ValueError: IntervalTree"
    /\ UNCHANGED <<args, start_dt, end_dt, current, free_slots, model, result>>

InitMerge ==
    /\ zone \in LocalZones
    /\ busy_intervals \in SeqsUpTo(RawIntervals, MaxIntervals)
    /\ start_date = [ok |-> TRUE, day |-> 0]
    /\ end_date = [ok |-> TRUE, day |-> 0]
    /\ slot_duration_min = 60
    /\ work_start = 9
    /\ work_end = 21
    /\ pc = "merge_call"
    /\ err = ""
    /\ start_dt = 0
    /\ end_dt = 0
    /\ merged = << >>
    /\ current = 0
    /\ free_slots = << >>
    /\ model = {}
    /\ result = << >>

NextMerge == MergeCall

SpecMerge == InitMerge /\ [][NextMerge]_vars

-----------------------------------------------------------------------------
(* Properties.                                                             *)

SlotStart(k) == FromIso(free_slots[k].start)
SlotEnd(k) == FromIso(free_slots[k].end)

\* midnight of the day a datetime falls on
DayOf(t) == (t \div MinutesPerDay) * MinutesPerDay

\* the working span in minutes
Span == (work_end - work_start) * MinutesPerHour

\* C1: no emitted free slot overlaps (half-open test) an input busy
\* interval b with b.start < b.end.
C1_Disjoint ==
    \A k \in 1..Len(free_slots) : \A i \in 1..Len(busy_intervals) :
        LET b == busy_intervals[i]
        IN  b[1] < b[2] => (SlotEnd(k) <= b[1] \/ SlotStart(k) >= b[2])

\* C2: every emitted slot lies within one day's working window: it starts
\* at or after that day's work_start:00 and ends at or before that day's
\* work_end:00.
C2_WindowContainment ==
    \A k \in 1..Len(free_slots) :
        /\ SlotStart(k) >= DayOf(SlotStart(k)) + work_start * MinutesPerHour
        /\ SlotEnd(k) <= DayOf(SlotStart(k)) + work_end * MinutesPerHour

RoundTrip(z, iv) ==
    << FromTimestamp(z, Timestamp(z, iv[1])), FromTimestamp(z, Timestamp(z, iv[2])) >>

ValidInputs ==
    { RoundTrip(zone, busy_intervals[i]) :
        i \in { j \in 1..Len(busy_intervals) :
                  busy_intervals[j][1] < busy_intervals[j][2] } }

C4_Normalized ==
    pc = "merge_done" =>
        /\ \A i \in 1..Len(merged) : merged[i][1] < merged[i][2]
        /\ \A i \in 1..(Len(merged) - 1) :
               /\ merged[i][1] <= merged[i + 1][1]
               /\ merged[i][2] <= merged[i + 1][1]

\* Witness of C4: an unsorted input of three intervals, one of them
\* malformed and two overlapping, gave an output.
C4_Witness ==
    /\ pc = "merge_done"
    /\ Len(busy_intervals) = 3
    /\ merged # << >>
    /\ \E i \in 1..3 : busy_intervals[i][1] >= busy_intervals[i][2]
    /\ \E i, j \in 1..3 :
           /\ i < j
           /\ busy_intervals[j][1] < busy_intervals[i][1]
           /\ busy_intervals[i][1] < busy_intervals[j][2]
           /\ busy_intervals[i][1] < busy_intervals[i][2]

WellFormed(iv) == iv[1] < iv[2]

\* C5: a pair with start >= end is dropped without failure: the outcome of
\* merge_busy_intervals equals its outcome on the same input with all such
\* pairs removed, and an input without a well-formed pair yields the empty
\* list.
C5_DropLaw ==
    pc \in {"merge_done", "merge_error"} =>
        LET kept == SelectSeq(busy_intervals, WellFormed)
        IN  /\ [ok |-> pc = "merge_done", val |-> merged]
                  = merge_busy_intervals(zone, kept)
            /\ kept = << >> => (pc = "merge_done" /\ merged = << >>)

\* Witness of C5: malformed pairs (one of them with start = end) were
\* dropped from an input whose other intervals were merged.
C5_Witness ==
    /\ pc = "merge_done"
    /\ merged # << >>
    /\ \E i \in 1..Len(busy_intervals) : busy_intervals[i][1] = busy_intervals[i][2]
    /\ \E i \in 1..Len(busy_intervals) : busy_intervals[i][1] > busy_intervals[i][2]

ParameterErrors ==
    { "ValueError: slot_duration_min", "ValueError: work_start",
      "ValueError: work_end", "ValueError: work_start >= work_end",
      "InvalidDateRangeError: format",
      "InvalidDateRangeError: start_date must be before end_date" }

\* the scan parameter invariants the claim lists, on well-formed dates
InvariantViolated ==
    \/ slot_duration_min <= 0
    \/ work_start < 0 \/ work_start > 23
    \/ work_end < 0 \/ work_end > 24
    \/ work_start >= work_end
    \/ (start_date.ok /\ end_date.ok /\ start_date.day > end_date.day)

\* C6: when a scan parameter invariant is violated the call ends in a
\* parameter error before merging or scanning and returns no slot list;
\* when all hold (and the dates are well formed) no parameter error is raised.
C6_FailFast ==
    /\ InvariantViolated =>
           /\ pc \in {"idle", "validate", "error"}
           /\ pc = "error" => err \in ParameterErrors
           /\ merged = << >> /\ free_slots = << >> /\ model = {} /\ result = << >>
    /\ (~InvariantViolated /\ start_date.ok /\ end_date.ok) =>
           /\ err \notin ParameterErrors
           /\ pc \notin {"idle", "validate"} => pc \in {"merge", "scan", "done", "error"}
           /\ pc = "error" => err = "ValueError: IntervalTree"

\* Witness of C6: an inverted work window with a non-empty busy list ended
\* in an error.
C6_Witness ==
    /\ pc = "error"
    /\ err = "ValueError: work_start >= work_end"
    /\ busy_intervals # << >>

\* slots the list holds that start on day d
SlotsOfDay(d) ==
    { k \in 1..Len(free_slots) : DayOf(SlotStart(k)) = d * MinutesPerDay }

\* C7: with an empty busy set and a slot_duration that does not divide the
\* working span, each day of the range yields exactly
\* floor(span / slot_duration) slots and no slot starts in or covers the
\* remainder region before work_end.
C7_FloorCount ==
    (pc = "done" /\ busy_intervals = << >> /\ Span % slot_duration_min # 0) =>
        \A d \in start_date.day .. end_date.day :
            /\ Cardinality(SlotsOfDay(d)) = Span \div slot_duration_min
            /\ \A k \in SlotsOfDay(d) :
                   SlotEnd(k) <= d * MinutesPerDay + work_start * MinutesPerHour
                                   + (Span \div slot_duration_min) * slot_duration_min

\* the slots of an entirely free range, day by day, back to back
ExpectedSlots ==
    LET n == Span \div slot_duration_min
        days == end_date.day - start_date.day + 1
    IN  [j \in 1..(days * n) |->
            LET d == start_date.day + ((j - 1) \div n)
                s == d * MinutesPerDay + work_start * MinutesPerHour
                       + ((j - 1) % n) * slot_duration_min
            IN  [start |-> IsoFormat(s),
                 end |-> IsoFormat(s + slot_duration_min),
                 duration_minutes |-> slot_duration_min]]

\* C8: with an empty busy set and a slot_duration that divides the working
\* span, the returned list is exactly, for every day from the start date
\* through the end date, the span / slot_duration back-to-back slots that
\* start at work_start + k * slot_duration.
C8_FullDays ==
    (pc = "done" /\ busy_intervals = << >> /\ Span % slot_duration_min = 0) =>
        result = ExpectedSlots

\* Witness of C8: a range of more than one day was returned in full, with a
\* slot that does not start on the hour.
C8_Witness ==
    /\ pc = "done"
    /\ busy_intervals = << >>
    /\ Span % slot_duration_min = 0
    /\ start_date.day < end_date.day
    /\ Len(result) = (end_date.day - start_date.day + 1) * (Span \div slot_duration_min)
    /\ \E k \in 1..Len(result) : result[k].start[3] # 0

\* C9: the list is in strictly increasing chronological order, consecutive
\* slots s, t have s.end <= t.start, and every slot has end - start equal to
\* slot_duration minutes.
C9_Ordered ==
    /\ \A k \in 1..Len(free_slots) :
           /\ SlotEnd(k) - SlotStart(k) = slot_duration_min
           /\ free_slots[k].duration_minutes = slot_duration_min
    /\ \A k \in 1..(Len(free_slots) - 1) :
           /\ SlotStart(k) < SlotStart(k + 1)
           /\ SlotEnd(k) <= SlotStart(k + 1)
    /\ pc = "done" => result = free_slots

\* Witness of C9: the returned list has a slot that runs past work_end and
\* consecutive slots on different days.
C9_Witness ==
    /\ pc = "done"
    /\ \E k \in 1..(Len(result) - 1) :
           /\ DayOf(SlotStart(k)) # DayOf(SlotStart(k + 1))
           /\ SlotEnd(k) > DayOf(SlotStart(k)) + work_end * MinutesPerHour

\* C10: the call terminates; every iteration of the scan loop strictly
\* advances the cursor, and the loop is left with the cursor at or past
\* range_end.
C10_Terminates ==
    /\ <>(pc \in {"done", "error"})
    /\ [][(pc = "scan" /\ pc' = "scan") => current' > current]_vars
    /\ [](pc = "done" => current >= end_dt)

\* Witness of C10: a scan over busy intervals that took more than one day
\* and skipped conflicting slots has returned.
C10_Witness ==
    /\ pc = "done"
    /\ model # {}
    /\ result # << >>
    /\ current >= end_dt
    /\ start_date.day < end_date.day

=============================================================================
